---- MODULE Spec2Model ----
(***************************************************************************)
(* Flip Tracker (src/app.py): a Flask application over one SQLite file.    *)
(*                                                                         *)
(* State: the committed database, SQLite's single write lock, the rows a   *)
(* request has flushed but not committed, the process flag                 *)
(* app.db_initialized, each client's session cookie, and the position of   *)
(* each worker thread in before_request / the view function.               *)
(*                                                                         *)
(* Conventions.                                                            *)
(*  - A table is a sequence of rows; a row's primary key is its position   *)
(*    (SQLite assigns rowid = max + 1 and no code deletes rows).           *)
(*  - db.Float values are held in tenths (150000.0 is 1500000), so that    *)
(*    one fractional digit is exact.                                       *)
(*  - Form fields parsed by float() are sequences of characters; the       *)
(*    other form fields are strings, "" for an empty or absent field       *)
(*    (request.form.get(..) gives None, which `or` and `not` treat like    *)
(*    "").  Missing stands for an absent field where the code does not     *)
(*    collapse it (the login lookup).                                      *)
(*  - 0 stands for None as an id: ids start at 1 and the code tests        *)
(*    `if not contractor_id`.                                              *)
(*  - A response carries the notice the view flashed while handling the    *)
(*    request (flash() stores it for the next page rendered).              *)
(*  - SQLite, as the driver uses it: a SELECT outside a transaction reads  *)
(*    committed rows; the first INSERT of a transaction takes the one      *)
(*    write lock and keeps it until commit or rollback; a failed INSERT    *)
(*    during commit rolls the transaction back.                            *)
(***************************************************************************)
EXTENDS Integers, Sequences, FiniteSets, TLC

VARIABLES
    schema,          \* the tables exist in the database file
    store,           \* committed rows, one sequence per table
    lock,            \* thread holding SQLite's write lock, 0 when free
    txn,             \* txn[t]: rows thread t has flushed, uncommitted
    db_initialized,  \* hasattr(app, "db_initialized")
    session,         \* session[t]: contractor_id in client t's cookie, 0 = absent
    pc,              \* pc[t]: where thread t is
    request,         \* request[t]: the request of a view function that is between statements
    reply            \* the request answered by the step that led here, and its response

vars == <<schema, store, lock, txn, db_initialized, session, pc, request, reply>>

----------------------------------------------------------------------------
(* Bounds *)

MaxProjects == 2
MaxExpenses == 3
StaleCookieId == 3

\* Two worker threads, each serving the requests of one client.
Threads == {1, 2}

----------------------------------------------------------------------------
(* float(): the text of a numeric form field *)

Digits == {"0", "1", "2", "3", "4", "5", "6", "7", "8", "9"}

DigitVal(c) ==
    CASE c = "0" -> 0 [] c = "1" -> 1 [] c = "2" -> 2 [] c = "3" -> 3
      [] c = "4" -> 4 [] c = "5" -> 5 [] c = "6" -> 6 [] c = "7" -> 7
      [] c = "8" -> 8 [] c = "9" -> 9

RECURSIVE LStrip(_)
LStrip(s) == IF s # <<>> /\ Head(s) = " " THEN LStrip(Tail(s)) ELSE s

RECURSIVE RStrip(_)
RStrip(s) ==
    IF s # <<>> /\ s[Len(s)] = " " THEN RStrip(SubSeq(s, 1, Len(s) - 1)) ELSE s

Strip(s) == RStrip(LStrip(s))

RECURSIVE AllDigits(_)
AllDigits(s) == s = <<>> \/ (Head(s) \in Digits /\ AllDigits(Tail(s)))

RECURSIVE IntVal(_)
IntVal(s) == IF s = <<>> THEN 0 ELSE IntVal(SubSeq(s, 1, Len(s) - 1)) * 10 + DigitVal(s[Len(s)])

DotAt(s) == IF \E i \in 1..Len(s) : s[i] = "."
            THEN CHOOSE i \in 1..Len(s) : s[i] = "." /\ \A j \in 1..(i - 1) : s[j] # "."
            ELSE 0

\* An unsigned decimal: digits, optionally one "." with digits on either
\* side, at least one digit in all.
Mantissa(s) ==
    LET d == DotAt(s)
        ip == IF d = 0 THEN s ELSE SubSeq(s, 1, d - 1)
        fp == IF d = 0 THEN <<>> ELSE SubSeq(s, d + 1, Len(s))
    IN  [ok  |-> AllDigits(ip) /\ AllDigits(fp) /\ Len(ip) + Len(fp) > 0,
         val |-> IF AllDigits(ip) /\ AllDigits(fp)
                 THEN IntVal(ip) * 10 + (IF fp = <<>> THEN 0 ELSE DigitVal(fp[1]))
                 ELSE 0]

\* float(text): surrounding blanks stripped, an optional sign, a decimal.
\* ok = FALSE is ValueError.  val is in tenths.  (Exponents, "inf", "nan",
\* digit-group underscores and further fractional digits are outside the
\* alphabet of the inputs drawn below.)
FloatParse(s) ==
    LET t == Strip(s)
        signed == t # <<>> /\ Head(t) \in {"+", "-"}
        m == Mantissa(IF signed THEN Tail(t) ELSE t)
    IN  [ok  |-> m.ok,
         val |-> IF signed /\ Head(t) = "-" THEN 0 - m.val ELSE m.val]

----------------------------------------------------------------------------
(* The database: tables, rows, the seeded project graph *)

Tables == {"project", "budget", "contractor", "task", "expense", "inspection",
           "status_report"}

EmptyDb == [k \in Tables |-> <<>>]

\* The rows of tx appended to those of db, table by table.
Merge(db, tx) == [k \in Tables |-> db[k] \o tx[k]]

RowCount(db) == [k \in Tables |-> Len(db[k])]

Ids(table) == 1..Len(table)

\* NULL in a column, and an absent form field.
Missing == "<null>"

DemoProject ==
    [name |-> "Elm Street Flip", address |-> "123 Elm Street",
     status |-> "In Progress", progress_percent |-> 45]

DemoBudget(pid) == [total_budget |-> 1500000, project_id |-> pid]

DemoContractors(pid) ==
    << [name |-> "Ace Plumbing Co.", trade_type |-> "Plumbing", phone |-> "555-1234",
        username |-> "aceplumb", password |-> "password123", project_id |-> pid],
       [name |-> "Bright Spark Electric", trade_type |-> "Electrical", phone |-> "555-5678",
        username |-> "sparky", password |-> "password123", project_id |-> pid] >>

DemoTasks(pid) ==
    << [title |-> "Demo old kitchen", status |-> "Completed",
        due_date |-> "2025-01-10", project_id |-> pid],
       [title |-> "Rough plumbing", status |-> "In Progress",
        due_date |-> "2025-01-25", project_id |-> pid],
       [title |-> "Electrical rough-in", status |-> "Not Started",
        due_date |-> "2025-02-05", project_id |-> pid] >>

DemoExpenses(pid) ==
    << [category |-> "Materials", amount |-> 35000,
        description |-> "Lumber + drywall", project_id |-> pid],
       [category |-> "Labor", amount |-> 20000,
        description |-> "Demo crew", project_id |-> pid] >>

DemoInspections(pid) ==
    << [type |-> "Framing", status |-> "Scheduled", date |-> "2025-01-30", project_id |-> pid],
       [type |-> "Electrical", status |-> "Requested", date |-> Missing, project_id |-> pid] >>

DemoReports(pid) ==
    << [project_id |-> pid,
        progress_summary |-> "Demo complete, framing underway.",
        cost_summary |-> "Spent $5,500 out of $150,000 budget.",
        timeline_summary |-> "On track, inspections scheduled for end of month."] >>

\* Variant: the emptiness test is off by one.
HasProjectOffByOne(db) == Len(db.project) > 1

\* create_demo_data, line 125: Project.query.first() is truthy.
HasProject(db) == Len(db.project) > 0

\* create_demo_data, lines 128-136: the Project row, flushed for its id.
SeedFlushRows == [EmptyDb EXCEPT !.project = <<DemoProject>>]

\* create_demo_data, lines 138-219: the rows added after the flush, all
\* carrying the flushed project's id.
SeedRestRows(pid) ==
    [EmptyDb EXCEPT !.budget = <<DemoBudget(pid)>>,
                    !.contractor = DemoContractors(pid),
                    !.task = DemoTasks(pid),
                    !.expense = DemoExpenses(pid),
                    !.inspection = DemoInspections(pid),
                    !.status_report = DemoReports(pid)]

\* Variant: the column is declared without unique=True.
NotUnique(contractors) == TRUE

\* Contractor.username is unique=True (NULLs do not collide in SQLite).
UniqueUsernames(contractors) ==
    \A i, j \in Ids(contractors) :
        (i # j /\ contractors[i].username # Missing)
            => contractors[i].username # contractors[j].username

\* The constraints the INSERTs of a commit are checked against; a
\* violation raises IntegrityError and the transaction is rolled back.
ConstraintsOk(db) == UniqueUsernames(db.contractor)

----------------------------------------------------------------------------
(* Requests and responses *)

NoForm ==
    [name |-> "", address |-> "", status |-> "", total_budget |-> <<>>,
     category |-> "", amount |-> <<>>, description |-> "",
     username |-> "", password |-> ""]

Req(route, method, pid, form) ==
    [route |-> route, method |-> method, project_id |-> pid, form |-> form]

NoReq == Req("", "", 0, NoForm)

\* status 200: view[1] is the template rendered; 302: the endpoint
\* redirected to, view[2] its project_id (0 when it has none);
\* 404 / 500: abort(404) / an exception that no handler caught.
Resp(status, view, flash) ==
    [status |-> status, view |-> view, flash |-> flash,
     contractor |-> 0, project |-> 0, tasks |-> {}, projects |-> <<>>,
     totals |-> <<>>]

NoResp == Resp(0, <<"", 0>>, <<>>)
NotFound == Resp(404, <<"", 0>>, <<>>)
ServerError == Resp(500, <<"", 0>>, <<>>)
Render(template) == Resp(200, <<template, 0>>, <<>>)
Redirect(endpoint, pid, flash) == Resp(302, <<endpoint, pid>>, flash)

\* What a step sent: the thread, its request, the response.
Reply(t, r, resp) == [thread |-> t, req |-> r, resp |-> resp]
NoReply == Reply(0, NoReq, NoResp)

\* Texts of numeric fields.
T_empty == <<>>
T_abc == <<"a", "b", "c">>
T_50000 == <<"5", "0", "0", "0", "0">>
T_neg7p5_padded == <<" ", "-", "7", ".", "5", " ">>
T_1p2p3 == <<"1", ".", "2", ".", "3">>

ProjectIdsAsked == 1..(MaxProjects + 1)

NewProjectForms ==
    { [NoForm EXCEPT !.name = n, !.address = "9 Oak Avenue", !.status = "",
                     !.total_budget = b] :
        n \in {"", "Test House"}, b \in {T_empty, T_abc} }
    \cup { [NoForm EXCEPT !.name = n, !.status = "Completed", !.total_budget = b] :
            n \in {"", "Test House"}, b \in {T_50000, T_1p2p3} }

NewExpenseForms ==
    { [NoForm EXCEPT !.category = "Paint", !.amount = a, !.description = "2 coats"] :
        a \in {T_abc, T_1p2p3, T_neg7p5_padded} }

LoginForms ==
    { [NoForm EXCEPT !.username = u, !.password = p] :
        u \in {"aceplumb", "sparky", "nobody"}, p \in {"password123", "letmein"} }
    \cup { [NoForm EXCEPT !.username = Missing, !.password = Missing] }

DashboardRequests == {Req("dashboard", "GET", 0, NoForm)}

ProjectDetailRequests == {Req("project_detail", "GET", p, NoForm) : p \in ProjectIdsAsked}

NewProjectRequests ==
    {Req("new_project", "GET", 0, NoForm)}
    \cup {Req("new_project", "POST", 0, f) : f \in NewProjectForms}

NewExpenseRequests ==
    {Req("new_expense", "GET", p, NoForm) : p \in ProjectIdsAsked}
    \cup {Req("new_expense", "POST", p, f) : p \in ProjectIdsAsked, f \in NewExpenseForms}

ContractorLoginRequests ==
    {Req("contractor_login", "GET", 0, NoForm)}
    \cup {Req("contractor_login", "POST", 0, f) : f \in LoginForms}

ContractorDashboardRequests == {Req("contractor_dashboard", "GET", 0, NoForm)}

ContractorLogoutRequests == {Req("contractor_logout", "GET", 0, NoForm)}

----------------------------------------------------------------------------
(* The view functions, as functions of what they read *)

\* Model.query.get_or_404(id): the row exists.
Exists(table, id) == id \in Ids(table)

\* dashboard, lines 241-242: every project, in persistence order.
DashboardResp(db) ==
    [Render("dashboard.html") EXCEPT !.projects = [i \in Ids(db.project) |-> i]]

RECURSIVE SumAmounts(_, _)
SumAmounts(expenses, pid) ==
    IF expenses = <<>> THEN 0
    ELSE (IF Head(expenses).project_id = pid THEN Head(expenses).amount ELSE 0)
         + SumAmounts(Tail(expenses), pid)

\* project.budget (uselist=False): the project's budget row, 0 for None.
BudgetOf(db, pid) ==
    IF \E i \in Ids(db.budget) : db.budget[i].project_id = pid
    THEN CHOOSE i \in Ids(db.budget) :
            /\ db.budget[i].project_id = pid
            /\ \A j \in 1..(i - 1) : db.budget[j].project_id # pid
    ELSE 0

\* project_detail, lines 248-266.
ProjectDetailResp(db, pid) ==
    IF ~Exists(db.project, pid) THEN NotFound
    ELSE LET total_expenses == SumAmounts(db.expense, pid)
             b == BudgetOf(db, pid)
             total_budget == IF b # 0 THEN db.budget[b].total_budget ELSE 0
             remaining_budget == total_budget - total_expenses
         IN  [Render("project_detail.html") EXCEPT
                 !.project = pid,
                 !.totals = <<total_budget, total_expenses, remaining_budget>>]

\* new_project, line 276: float(request.form.get("total_budget") or 0).
TotalBudgetField(form) ==
    IF form.total_budget = <<>> THEN [ok |-> TRUE, val |-> 0]
    ELSE FloatParse(form.total_budget)

\* new_project, line 275: request.form.get("status") or "Planned".
StatusField(form) == IF form.status = "" THEN "Planned" ELSE form.status

\* new_project, lines 272-298, up to the first INSERT: "render" the form,
\* "raise" (the ValueError of line 276, which nothing catches), "reject"
\* the empty name, or "create".
NewProjectOutcome(req) ==
    IF req.method # "POST" THEN "render"
    ELSE IF ~TotalBudgetField(req.form).ok THEN "raise"
    ELSE IF req.form.name = "" THEN "reject"
    ELSE "create"

\* new_project, lines 282-287.
NewProjectRow(form) ==
    [name |-> form.name, address |-> form.address, status |-> StatusField(form),
     progress_percent |-> 0]

\* Variant: the Budget is never added to the session.
NewProjectNoBudget(form, pid) == EmptyDb

\* new_project, lines 291-292: the rows added after the flush.
NewProjectRestRows(form, pid) ==
    [EmptyDb EXCEPT !.budget =
        << [total_budget |-> TotalBudgetField(form).val, project_id |-> pid] >>]

\* Variant: the ValueError is swallowed and the amount taken as parsed.
AmountFieldLenient(form) ==
    [ok |-> TRUE,
     val |-> FloatParse(IF form.amount = <<>> THEN <<"0">> ELSE form.amount).val]

\* new_expense, lines 308 and 311-313: float(request.form.get("amount") or "0").
AmountField(form) ==
    FloatParse(IF form.amount = <<>> THEN <<"0">> ELSE form.amount)

\* Variant: the project is not looked up before the form is handled.
NewExpenseOutcomeNoLookup(db, r) ==
    IF r.method # "POST" THEN "render"
    ELSE IF ~AmountField(r.form).ok THEN "reject"
    ELSE "create"

\* new_expense, lines 304-328, up to the INSERT.
NewExpenseOutcome(db, r) ==
    IF ~Exists(db.project, r.project_id) THEN "not_found"
    ELSE IF r.method # "POST" THEN "render"
    ELSE IF ~AmountField(r.form).ok THEN "reject"
    ELSE "create"

\* new_expense, lines 317-322.
NewExpenseRows(req) ==
    [EmptyDb EXCEPT !.expense =
        << [category |-> req.form.category, amount |-> AmountField(req.form).val,
            description |-> req.form.description, project_id |-> req.project_id] >>]

\* Variant: the lookup filters on the username alone.
LoginLookupByName(db, username, password) ==
    LET hit(i) == db.contractor[i].username = username
    IN  IF \E i \in Ids(db.contractor) : hit(i)
        THEN CHOOSE i \in Ids(db.contractor) : hit(i) /\ \A j \in 1..(i - 1) : ~hit(j)
        ELSE 0

\* contractor_login, line 338: filter_by(username=, password=).first();
\* the contractor's id, 0 for None.
LoginLookup(db, username, password) ==
    LET hit(i) == /\ db.contractor[i].username = username
                  /\ db.contractor[i].password = password
    IN  IF \E i \in Ids(db.contractor) : hit(i)
        THEN CHOOSE i \in Ids(db.contractor) : hit(i) /\ \A j \in 1..(i - 1) : ~hit(j)
        ELSE 0

\* contractor_login, lines 334-346: the response and the session after.
ContractorLogin(db, sess, req) ==
    LET c == IF req.method = "POST"
             THEN LoginLookup(db, req.form.username, req.form.password) ELSE 0
    IN  IF req.method # "POST"
        THEN [resp |-> Render("contractor_login.html"), session |-> sess]
        ELSE IF c # 0
        THEN [resp |-> Redirect("contractor_dashboard", 0,
                                <<"success", "Welcome", db.contractor[c].name>>),
              session |-> c]
        ELSE [resp |-> [Render("contractor_login.html") EXCEPT
                           !.flash = <<"danger", "Invalid username or password.">>],
              session |-> sess]

\* Variant: the tasks are filtered on their own id.
TasksById(db, pid) == {i \in Ids(db.task) : i = pid}

\* contractor_dashboard, line 359: Task.query.filter_by(project_id=project.id).
TasksOfProject(db, pid) == {i \in Ids(db.task) : db.task[i].project_id = pid}

\* contractor_dashboard, lines 351-366.
ContractorDashboardResp(db, sess) ==
    IF sess = 0
    THEN Redirect("contractor_login", 0, <<"warning", "Please log in as a contractor.">>)
    ELSE IF ~Exists(db.contractor, sess) THEN NotFound
    ELSE LET project == db.contractor[sess].project_id
         IN  [Render("contractor_dashboard.html") EXCEPT
                 !.contractor = sess, !.project = project,
                 !.tasks = TasksOfProject(db, project)]

\* Variant: the session is left as it was.
SessionKept(sess) == sess

\* contractor_logout, line 371: session.pop("contractor_id", None).
SessionPop(sess) == 0

\* contractor_logout, lines 372-373.
ContractorLogoutResp == Redirect("contractor_login", 0, <<"info", "Logged out.">>)

----------------------------------------------------------------------------
(* Initial states *)

Init ==
    /\ schema = FALSE
    /\ store = EmptyDb
    /\ lock = 0
    /\ txn = [t \in Threads |-> EmptyDb]
    /\ db_initialized = FALSE
    /\ session = [t \in Threads |-> 0]
    /\ pc = [t \in Threads |-> "idle"]
    /\ request = [t \in Threads |-> NoReq]
    /\ reply = NoReply

\* The session is a client-side cookie signed with the key of line 19,
\* which is in the source: a client may present a contractor_id that no
\* login of this store gave it.
InitCookie ==
    /\ schema = FALSE
    /\ store = EmptyDb
    /\ lock = 0
    /\ txn = [t \in Threads |-> EmptyDb]
    /\ db_initialized = FALSE
    /\ session \in [Threads -> {0, StaleCookieId}]
    /\ pc = [t \in Threads |-> "idle"]
    /\ request = [t \in Threads |-> NoReq]
    /\ reply = NoReply

----------------------------------------------------------------------------
(* Steps of a worker thread *)

\* Thread t goes on to `where` and sends nothing yet.
Goto(t, where) ==
    /\ pc' = [pc EXCEPT ![t] = where]
    /\ reply' = NoReply

\* The response to r is sent and the thread is free again.
Respond(t, r, resp) ==
    /\ pc' = [pc EXCEPT ![t] = "idle"]
    /\ request' = [request EXCEPT ![t] = NoReq]
    /\ reply' = Reply(t, r, resp)

\* A request arrives on thread t and before_request runs init_db, line
\* 229.  Nothing before the view function reads the request, which is
\* drawn when the view function runs.
InitDb(t) ==
    /\ pc[t] = "idle"
    /\ Goto(t, IF db_initialized THEN "view" ELSE "create_all")
    /\ UNCHANGED <<schema, store, lock, txn, db_initialized, session, request>>

\* init_db, line 230: create_all looks for the tables ...
CreateAll(t) ==
    /\ pc[t] = "create_all"
    /\ Goto(t, IF schema THEN "seed_query" ELSE "create_tables")
    /\ UNCHANGED <<schema, store, lock, txn, db_initialized, session, request>>

\* ... and creates those it did not find; CREATE TABLE of a table another
\* thread created meanwhile fails (OperationalError).
CreateTables(t) ==
    /\ pc[t] = "create_tables"
    /\ lock = 0
    /\ IF schema
       THEN /\ Respond(t, NoReq, ServerError)
            /\ UNCHANGED schema
       ELSE /\ schema' = TRUE
            /\ Goto(t, "seed_query")
            /\ UNCHANGED request
    /\ UNCHANGED <<store, lock, txn, db_initialized, session>>

\* create_demo_data, lines 125-126.
SeedQuery(t) ==
    /\ pc[t] = "seed_query"
    /\ Goto(t, IF HasProject(store) THEN "set_flag" ELSE "seed_flush")
    /\ UNCHANGED <<schema, store, lock, txn, db_initialized, session, request>>

\* create_demo_data, lines 128-136: the INSERT takes the write lock.
SeedFlush(t) ==
    /\ pc[t] = "seed_flush"
    /\ lock = 0
    /\ lock' = t
    /\ txn' = [txn EXCEPT ![t] = SeedFlushRows]
    /\ Goto(t, "seed_commit")
    /\ UNCHANGED <<schema, store, db_initialized, session, request>>

\* The id the flush gave the one project of thread t's transaction.
FlushedProjectId(t) == Len(store.project) + Len(txn[t].project)

\* create_demo_data, lines 138-221: the remaining rows and the commit.
SeedCommit(t) ==
    /\ pc[t] = "seed_commit"
    /\ lock = t
    /\ LET after == Merge(store, Merge(txn[t], SeedRestRows(FlushedProjectId(t))))
       IN  IF ConstraintsOk(after)
           THEN /\ store' = after
                /\ Goto(t, "set_flag")
                /\ UNCHANGED request
           ELSE /\ Respond(t, NoReq, ServerError)
                /\ UNCHANGED store
    /\ lock' = 0
    /\ txn' = [txn EXCEPT ![t] = EmptyDb]
    /\ UNCHANGED <<schema, db_initialized, session>>

\* init_db, line 232.
SetFlag(t) ==
    /\ pc[t] = "set_flag"
    /\ db_initialized' = TRUE
    /\ Goto(t, "view")
    /\ UNCHANGED <<schema, store, lock, txn, session, request>>

\* dashboard.
ViewDashboard(t) ==
    /\ pc[t] = "view"
    /\ \E r \in DashboardRequests : Respond(t, r, DashboardResp(store))
    /\ UNCHANGED <<schema, store, lock, txn, db_initialized, session>>

\* project_detail.
ViewProjectDetail(t) ==
    /\ pc[t] = "view"
    /\ \E r \in ProjectDetailRequests :
        Respond(t, r, ProjectDetailResp(store, r.project_id))
    /\ UNCHANGED <<schema, store, lock, txn, db_initialized, session>>

\* new_project, lines 272-289 and 298; the INSERT of line 289 takes the
\* write lock.
ViewNewProject(t) ==
    /\ pc[t] = "view"
    /\ \E r \in NewProjectRequests :
        LET o == NewProjectOutcome(r)
        IN  CASE o = "render" ->
                     /\ Respond(t, r, Render("new_project.html"))
                     /\ UNCHANGED <<lock, txn>>
              [] o = "raise"  ->
                     /\ Respond(t, r, ServerError)
                     /\ UNCHANGED <<lock, txn>>
              [] o = "reject" ->
                     /\ Respond(t, r, Redirect("new_project", 0,
                                               <<"danger", "Project name is required.">>))
                     /\ UNCHANGED <<lock, txn>>
              [] o = "create" ->
                     /\ Len(store.project) < MaxProjects
                     /\ lock = 0
                     /\ lock' = t
                     /\ txn' = [txn EXCEPT ![t] =
                                   [EmptyDb EXCEPT !.project = <<NewProjectRow(r.form)>>]]
                     /\ Goto(t, "np_commit")
                     /\ request' = [request EXCEPT ![t] = r]
    /\ UNCHANGED <<schema, store, db_initialized, session>>

\* new_project, lines 291-296.
CommitNewProject(t) ==
    /\ pc[t] = "np_commit"
    /\ lock = t
    /\ store' = Merge(store, Merge(txn[t],
                    NewProjectRestRows(request[t].form, FlushedProjectId(t))))
    /\ lock' = 0
    /\ txn' = [txn EXCEPT ![t] = EmptyDb]
    /\ Respond(t, request[t], Redirect("dashboard", 0, <<"success", "New project created!">>))
    /\ UNCHANGED <<schema, db_initialized, session>>

\* new_expense, lines 304-328; the INSERT and the commit of lines 323-324
\* need the write lock.
ViewNewExpense(t) ==
    /\ pc[t] = "view"
    /\ \E r \in NewExpenseRequests :
        LET o == NewExpenseOutcome(store, r)
        IN  CASE o = "not_found" ->
                     /\ Respond(t, r, NotFound)
                     /\ UNCHANGED store
              [] o = "render" ->
                     /\ Respond(t, r, [Render("new_expense.html") EXCEPT
                                          !.project = r.project_id])
                     /\ UNCHANGED store
              [] o = "reject" ->
                     /\ Respond(t, r, Redirect("new_expense", r.project_id,
                                               <<"danger", "Amount must be a number.">>))
                     /\ UNCHANGED store
              [] o = "create" ->
                     /\ Len(store.expense) < MaxExpenses
                     /\ lock = 0
                     /\ store' = Merge(store, NewExpenseRows(r))
                     /\ Respond(t, r, Redirect("project_detail", r.project_id,
                                               <<"success", "Expense added!">>))
    /\ UNCHANGED <<schema, lock, txn, db_initialized, session>>

\* A statement that needs the write lock while another connection holds
\* it gives up after the busy timeout ("database is locked"): CREATE
\* TABLE, the seeder's first INSERT, and the INSERT of a view function.
BusyTimeout(t) ==
    /\ lock \notin {0, t}
    /\ \/ /\ pc[t] \in {"create_tables", "seed_flush"}
          /\ Respond(t, NoReq, ServerError)
       \/ /\ pc[t] = "view"
          /\ \E r \in NewProjectRequests \cup NewExpenseRequests :
                /\ \/ r.route = "new_project" /\ NewProjectOutcome(r) = "create"
                   \/ r.route = "new_expense" /\ NewExpenseOutcome(store, r) = "create"
                /\ Respond(t, r, ServerError)
    /\ UNCHANGED <<schema, store, lock, txn, db_initialized, session>>

\* contractor_login.
ViewContractorLogin(t) ==
    /\ pc[t] = "view"
    /\ \E r \in ContractorLoginRequests :
        LET out == ContractorLogin(store, session[t], r)
        IN  /\ Respond(t, r, out.resp)
            /\ session' = [session EXCEPT ![t] = out.session]
    /\ UNCHANGED <<schema, store, lock, txn, db_initialized>>

\* contractor_dashboard.
ViewContractorDashboard(t) ==
    /\ pc[t] = "view"
    /\ \E r \in ContractorDashboardRequests :
        Respond(t, r, ContractorDashboardResp(store, session[t]))
    /\ UNCHANGED <<schema, store, lock, txn, db_initialized, session>>

\* contractor_logout.
ViewContractorLogout(t) ==
    /\ pc[t] = "view"
    /\ \E r \in ContractorLogoutRequests :
        /\ Respond(t, r, ContractorLogoutResp)
        /\ session' = [session EXCEPT ![t] = SessionPop(session[t])]
    /\ UNCHANGED <<schema, store, lock, txn, db_initialized>>

\* The process is restarted between requests: the flag is gone, the
\* database file and the clients' cookies stay.
Restart ==
    /\ db_initialized
    /\ \A t \in Threads : pc[t] = "idle"
    /\ db_initialized' = FALSE
    /\ reply' = NoReply
    /\ UNCHANGED <<schema, store, lock, txn, session, pc, request>>

Next ==
    \/ \E t \in Threads :
        \/ InitDb(t)
        \/ CreateAll(t)
        \/ CreateTables(t)
        \/ SeedQuery(t)
        \/ SeedFlush(t)
        \/ SeedCommit(t)
        \/ SetFlag(t)
        \/ BusyTimeout(t)
        \/ ViewDashboard(t)
        \/ ViewProjectDetail(t)
        \/ ViewNewProject(t)
        \/ CommitNewProject(t)
        \/ ViewNewExpense(t)
        \/ ViewContractorLogin(t)
        \/ ViewContractorDashboard(t)
        \/ ViewContractorLogout(t)
    \/ Restart

Spec == Init /\ [][Next]_vars

SpecCookie == InitCookie /\ [][Next]_vars

----------------------------------------------------------------------------
(* Vocabulary of the properties *)

\* The step answered a request for `route` with `method`.
Answered(rep, route, method) ==
    rep.thread # 0 /\ rep.req.route = route /\ rep.req.method = method

\* A numeric field that is filled in and that float() rejects.
NonNumeric(text) == text # <<>> /\ ~FloatParse(text).ok

ProjectIds(db) == 1..Len(db.project)

BudgetsOf(db, pid) == {i \in 1..Len(db.budget) : db.budget[i].project_id = pid}

IsDemoProject(row) == row.name = "Elm Street Flip"

DemoProjectIds(db) == {i \in ProjectIds(db) : IsDemoProject(db.project[i])}

DemoExpenseIds(db) ==
    {i \in 1..Len(db.expense) : db.expense[i].category \in {"Materials", "Labor"}}

\* The contractors whose stored credentials are exactly these.
Matching(db, username, password) ==
    {i \in 1..Len(db.contractor) :
        db.contractor[i].username = username /\ db.contractor[i].password = password}

NameRequired == <<"danger", "Project name is required.">>
AmountNotNumber == <<"danger", "Amount must be a number.">>
InvalidLogin == <<"danger", "Invalid username or password.">>
PleaseLogIn == <<"warning", "Please log in as a contractor.">>

----------------------------------------------------------------------------
(* C1 *)

\* The store holds the demo graph exactly once: one demo Project with one
\* Budget, and two Contractors, three Tasks, two demo Expenses, two
\* Inspections and one StatusReport, all of that project.
DemoGraphOnce(db) ==
    /\ Cardinality(DemoProjectIds(db)) = 1
    /\ \A p \in DemoProjectIds(db) :
        /\ db.project[p] = DemoProject
        /\ \E b \in 1..Len(db.budget) :
            BudgetsOf(db, p) = {b} /\ db.budget[b] = DemoBudget(p)
        /\ db.contractor = DemoContractors(p)
        /\ db.task = DemoTasks(p)
        /\ Cardinality(DemoExpenseIds(db)) = 2
        /\ \E i, j \in DemoExpenseIds(db) :
            i < j /\ <<db.expense[i], db.expense[j]>> = DemoExpenses(p)
        /\ db.inspection = DemoInspections(p)
        /\ db.status_report = DemoReports(p)

\* create_demo_data returned to init_db on thread t.
SeederReturned(t) == pc[t] = "set_flag"

\* A call of create_demo_data that finds a Project returns at once: it
\* inserts nothing, committed or not.
SeederInsertsNothing ==
    \A t \in Threads :
        (pc[t] = "seed_query" /\ ProjectIds(store) # {} /\ pc'[t] # pc[t])
            => /\ SeederReturned(t)'
               /\ store' = store
               /\ txn' = txn
               /\ lock' = lock

\* C1: create_demo_data is idempotent.  Whenever a call of it has
\* returned, however many calls came before, the store holds the demo
\* graph exactly once (one Project, one Budget, two Contractors, three
\* Tasks, two Expenses, two Inspections, one StatusReport); and a call
\* made while a Project exists inserts no row into any table.
C1_SeedIdempotent ==
    /\ []((\E t \in Threads : SeederReturned(t)) => DemoGraphOnce(store))
    /\ [][SeederInsertsNothing]_vars

\* A second call has returned (the first one's set the flag) and the store
\* holds the rows of one seeding and nothing else.
C1_Witness ==
    /\ db_initialized
    /\ \E t \in Threads : SeederReturned(t)
    /\ RowCount(store) = RowCount(Merge(SeedFlushRows, SeedRestRows(1)))

----------------------------------------------------------------------------
(* C2 *)

\* C2: a POST to /project/new whose total_budget is non-numeric is
\* answered with an error notice, not with an unhandled failure, and
\* creates no Project and no Budget.
C2_NonNumericBudgetNotice ==
    [][(/\ Answered(reply', "new_project", "POST")
        /\ NonNumeric(reply'.req.form.total_budget))
          => /\ reply'.resp.status # 500
             /\ reply'.resp.flash # <<>>
             /\ reply'.resp.flash[1] = "danger"
             /\ store' = store]_vars

----------------------------------------------------------------------------
(* C3 *)

\* C3: a POST to /project/new with an empty name, whatever its other
\* fields, leaves the Projects and Budgets as they were and redirects to
\* the new-project form with "Project name is required.".
C3_EmptyNameRejected ==
    [][(/\ Answered(reply', "new_project", "POST")
        /\ reply'.req.form.name = "")
          => /\ store'.project = store.project
             /\ store'.budget = store.budget
             /\ reply'.resp = Redirect("new_project", 0, NameRequired)]_vars

----------------------------------------------------------------------------
(* C4 *)

\* A non-numeric amount posted for an existing project changes no table
\* and redirects to that project's new-expense form with a notice.
NonNumericAmountRejected ==
    (/\ Answered(reply', "new_expense", "POST")
     /\ reply'.req.project_id \in ProjectIds(store)
     /\ NonNumeric(reply'.req.form.amount))
        => /\ store' = store
           /\ reply'.resp = Redirect("new_expense", reply'.req.project_id, AmountNotNumber)

\* Outside the seeder, the expense table grows only by the one Expense of
\* a new-expense POST whose amount float() accepts.
ExpenseOnlyWhenNumeric ==
    (ProjectIds(store) # {} /\ store'.expense # store.expense)
        => /\ Answered(reply', "new_expense", "POST")
           /\ LET text == IF reply'.req.form.amount = <<>> THEN <<"0">>
                          ELSE reply'.req.form.amount
              IN  /\ FloatParse(text).ok
                  /\ store'.expense = Append(store.expense,
                        [category |-> reply'.req.form.category,
                         amount |-> FloatParse(text).val,
                         description |-> reply'.req.form.description,
                         project_id |-> reply'.req.project_id])

\* C4: for every existing project, a POST to its new-expense form with a
\* non-numeric amount leaves every project's Expenses unchanged and leads
\* back to that form with an error notice; an Expense is added only when
\* the amount parses as a number.
C4_NonNumericAmount == [][NonNumericAmountRejected /\ ExpenseOnlyWhenNumeric]_vars

\* The form of an existing project was posted with amount "abc" and
\* answered by the redirect back to it.
C4_Witness ==
    /\ Answered(reply, "new_expense", "POST")
    /\ reply.req.project_id \in ProjectIds(store)
    /\ reply.req.form.amount = T_abc
    /\ reply.resp.status = 302
    /\ reply.resp.view[1] = "new_expense"

----------------------------------------------------------------------------
(* C5 *)

\* Every Project has exactly one Budget; every Budget and Expense refers
\* to a Project.
OneBudgetEach(db) ==
    /\ \A p \in ProjectIds(db) : Cardinality(BudgetsOf(db, p)) = 1
    /\ \A i \in 1..Len(db.budget) : db.budget[i].project_id \in ProjectIds(db)
    /\ \A i \in 1..Len(db.expense) : db.expense[i].project_id \in ProjectIds(db)

\* The success response of new_project comes with one new Project, of the
\* posted name and progress 0, and its one new Budget of the posted value.
CreatedWithBudget ==
    (Answered(reply', "new_project", "POST") /\ reply'.resp.status = 302
        /\ reply'.resp.view[1] = "dashboard")
        => LET p == Len(store.project) + 1
               f == reply'.req.form
           IN  /\ Len(store'.project) = p
               /\ store'.project[p].name = f.name
               /\ store'.project[p].progress_percent = 0
               /\ Len(store'.budget) = Len(store.budget) + 1
               /\ store'.budget[Len(store'.budget)] =
                     [total_budget |-> IF f.total_budget = <<>> THEN 0
                                       ELSE FloatParse(f.total_budget).val,
                      project_id |-> p]

\* C5: the Project and the Budget of a successful POST to /project/new are
\* committed as one unit: in every committed state every Project has
\* exactly one Budget and every Budget and Expense refers to an existing
\* Project, and a handler-created Project has progress_percent 0 and a
\* Budget of the parsed form value (0 when the field is blank).
C5_ProjectWithBudget == []OneBudgetEach(store) /\ [][CreatedWithBudget]_vars

\* A project posted with total_budget "50000" was just committed, with its
\* budget of 50000.0.
C5_Witness ==
    /\ Answered(reply, "new_project", "POST")
    /\ reply.resp.status = 302
    /\ reply.resp.view[1] = "dashboard"
    /\ reply.req.form.total_budget = T_50000
    /\ store.budget[Len(store.budget)].total_budget = 500000
    /\ Len(store.project) > 1

----------------------------------------------------------------------------
(* C6 *)

\* A login POST whose credentials match a stored Contractor puts that
\* contractor's id in the session and redirects to the dashboard.
LoginSetsSession ==
    \A c \in 1..Len(store.contractor) :
        (/\ Answered(reply', "contractor_login", "POST")
         /\ c \in Matching(store, reply'.req.form.username, reply'.req.form.password))
            => /\ session'[reply'.thread] = c
               /\ reply'.resp.status = 302
               /\ reply'.resp.view = <<"contractor_dashboard", 0>>

\* The dashboard of a logged-in contractor renders that contractor, its
\* project, and the tasks of that project: all of them and no others.
DashboardShowsOwnTasks ==
    \A t \in Threads :
        (/\ Answered(reply', "contractor_dashboard", "GET")
         /\ reply'.thread = t
         /\ session[t] \in 1..Len(store.contractor))
            => LET c == session[t]
                   p == store.contractor[c].project_id
               IN  /\ reply'.resp.status = 200
                   /\ reply'.resp.contractor = c
                   /\ reply'.resp.project = p
                   /\ reply'.resp.tasks =
                        {i \in 1..Len(store.task) : store.task[i].project_id = p}

----------------------------------------------------------------------------
(* C7 *)

\* A login POST that matches no Contractor changes no session and shows
\* the login form again with an error notice.
FailedLoginKeepsSession ==
    (/\ Answered(reply', "contractor_login", "POST")
     /\ Matching(store, reply'.req.form.username, reply'.req.form.password) = {})
        => /\ session' = session
           /\ reply'.resp.status = 200
           /\ reply'.resp.view[1] = "contractor_login.html"
           /\ reply'.resp.flash = InvalidLogin

\* A session's contractor_id is set or replaced only by a login POST in
\* that session whose credentials are those stored for that contractor.
SessionSetOnlyByLogin ==
    \A t \in Threads :
        (session'[t] # session[t] /\ session'[t] # 0)
            => /\ Answered(reply', "contractor_login", "POST")
               /\ reply'.thread = t
               /\ session'[t] \in Matching(store, reply'.req.form.username,
                                           reply'.req.form.password)

\* C7: a login POST matching no stored Contractor leaves the session as it
\* was (unset stays unset, a set contractor_id keeps its value) and shows
\* the login form with an error notice; so a session's contractor_id, when
\* set, is always the id of a stored Contractor whose credentials a login
\* in that session matched.
C7_FailedLoginFrame ==
    /\ [](\A t \in Threads : session[t] # 0 => session[t] \in 1..Len(store.contractor))
    /\ [][FailedLoginKeepsSession /\ SessionSetOnlyByLogin]_vars

\* A logged-in session posted a right username with a wrong password and
\* is still logged in.
C7_Witness ==
    /\ Answered(reply, "contractor_login", "POST")
    /\ reply.req.form.username = "sparky"
    /\ reply.req.form.password = "letmein"
    /\ reply.resp.flash = InvalidLogin
    /\ session[reply.thread] = 1

----------------------------------------------------------------------------
(* C8 *)

\* Logout leaves the session without contractor_id and touches neither
\* the store nor another session.
LogoutClears ==
    \A t \in Threads :
        (Answered(reply', "contractor_logout", "GET") /\ reply'.thread = t)
            => /\ session'[t] = 0
               /\ \A u \in Threads \ {t} : session'[u] = session[u]
               /\ store' = store
               /\ reply'.resp.status = 302
               /\ reply'.resp.view = <<"contractor_login", 0>>

\* Without contractor_id the dashboard redirects to the login page with a
\* warning and carries no contractor, project or task.
DashboardNeedsLogin ==
    \A t \in Threads :
        (/\ Answered(reply', "contractor_dashboard", "GET")
         /\ reply'.thread = t
         /\ session[t] = 0)
            => reply'.resp = Redirect("contractor_login", 0, PleaseLogIn)

\* A session without contractor_id gets one only by a successful login.
LoggedOutUntilLogin ==
    \A t \in Threads :
        (session[t] = 0 /\ session'[t] # 0)
            => /\ Answered(reply', "contractor_login", "POST")
               /\ reply'.thread = t
               /\ reply'.resp.status = 302

\* C8: logout removes contractor_id from the session whether or not it was
\* set and changes nothing in the store or in another session; from then
\* until the next successful login in that session every GET of the
\* contractor dashboard redirects to the login page with a warning and
\* shows no contractor, project or task.
C8_LogoutThenRedirect ==
    [][LogoutClears /\ DashboardNeedsLogin /\ LoggedOutUntilLogin]_vars

\* One session has just logged out while the other is still logged in.
C8_Witness ==
    /\ Answered(reply, "contractor_logout", "GET")
    /\ session[reply.thread] = 0
    /\ \E u \in Threads : session[u] # 0

----------------------------------------------------------------------------
(* C9 *)

\* A request naming a project id that is not in the store is answered
\* with not-found and changes nothing.
MissingProjectNotFound ==
    (/\ reply'.thread # 0
     /\ reply'.req.route \in {"project_detail", "new_expense"}
     /\ reply'.req.project_id \notin ProjectIds(store))
        => /\ reply'.resp = NotFound
           /\ store' = store

\* The dashboard of a session whose contractor_id is no Contractor's id is
\* answered with not-found.
MissingContractorNotFound ==
    \A t \in Threads :
        (/\ Answered(reply', "contractor_dashboard", "GET")
         /\ reply'.thread = t
         /\ session[t] # 0
         /\ session[t] \notin 1..Len(store.contractor))
            => /\ reply'.resp = NotFound
               /\ store' = store

\* C9: GET /project/{id} and GET or POST /project/{id}/expenses/new for an
\* id not in the store end with not-found and change nothing in the store
\* (a POST with a numeric amount creates no Expense); the contractor
\* dashboard gives not-found when the session's contractor_id refers to
\* no Contractor.
C9_NotFound == [][MissingProjectNotFound /\ MissingContractorNotFound]_vars

\* A numeric amount posted for a missing project was answered not-found.
C9_Witness ==
    /\ Answered(reply, "new_expense", "POST")
    /\ reply.req.project_id \notin ProjectIds(store)
    /\ reply.req.form.amount = T_neg7p5_padded
    /\ reply.resp.status = 404

\* The dashboard was asked for with a contractor_id that no Contractor
\* has, and answered not-found.
C9_WitnessContractor ==
    /\ Answered(reply, "contractor_dashboard", "GET")
    /\ session[reply.thread] \notin 0..Len(store.contractor)
    /\ reply.resp.status = 404

----------------------------------------------------------------------------
(* C10 *)

\* Thread t is in a view function.
InView(t) == pc[t] \in {"view", "np_commit"}

\* C10: under every interleaving of the threads that handle first
\* requests, the committed store never holds two demo Projects nor two
\* Contractors with one username, and no view function runs before the
\* seeding has been committed.
C10_SeedOnceUnderRaces ==
    /\ Cardinality(DemoProjectIds(store)) <= 1
    /\ \A i, j \in 1..Len(store.contractor) :
        store.contractor[i].username = store.contractor[j].username => i = j
    /\ \A t \in Threads : InView(t) => DemoGraphOnce(store)

\* Two calls of create_demo_data raced: one has committed the demo graph
\* and the other, which found no Project, holds the write lock with its
\* own demo Project flushed.
C10_Witness ==
    /\ ProjectIds(store) # {}
    /\ \E t \in Threads :
        /\ pc[t] = "seed_commit"
        /\ lock = t
        /\ txn[t].project = <<DemoProject>>

====
